---- MODULE Spec2Model ----
(***************************************************************************)
(* The indexing daemon of internal/embedding/python/indexer.py: startup    *)
(* (wait_for_server, model load, client construction, READY), the          *)
(* readline loop of main, process_request and index_chunks, against an     *)
(* abstract embedding model and an abstract vector store.                  *)
(***************************************************************************)
EXTENDS Integers, Sequences, FiniteSets, TLC

(* ----------------------------- bounds ---------------------------------- *)

\* Longest input (number of lines on stdin before end-of-stream).
MaxLines == 2

\* Largest --timeout, in seconds, the runs are started with.
MaxTimeout == 1

\* time.sleep(0.2): the clock is counted in sleeps, five to a second.
TicksPerSecond == 5

\* --timeout is parsed with type=int: a negative number of seconds is accepted.
MinTimeout == -1

(* ----------------------------- JSON values ----------------------------- *)

JNull == [t |-> "null"]
JStr(s) == [t |-> "str", v |-> s]
JNum(n) == [t |-> "num", n |-> n]
JArr(seq) == [t |-> "arr", a |-> seq]
JObj(f) == [t |-> "obj", o |-> f]
EmptyObj == JObj([k \in {} |-> JNull])

\* Python truthiness of a decoded JSON value (`if chunks:`).
Truthy(v) ==
    CASE v.t = "null" -> FALSE
      [] v.t = "str" -> v.v # ""
      [] v.t = "num" -> v.n # 0
      [] v.t = "arr" -> v.a # <<>>
      [] v.t = "obj" -> DOMAIN v.o # {}

\* dict.get(key, default) on a value known to be an object.
DictGet(d, key, default) == IF key \in DOMAIN d.o THEN d.o[key] ELSE default

(* ----------------------------- input lines ----------------------------- *)

\* A line of stdin is a sequence of tokens: whitespace, the newline that
\* ends it, or a run of text.  Text is either characters that json.loads
\* rejects, the word exit, or the text of a JSON value.
Ws == [k |-> "ws"]
Nl == [k |-> "nl"]
ExitTok == [k |-> "exit"]
GarbageTok == [k |-> "garbage"]
JsonTok(v) == [k |-> "json", val |-> v]

IsSpace(tok) == tok.k \in {"ws", "nl"}

RECURSIVE LStrip(_)
LStrip(s) == IF s # <<>> /\ IsSpace(Head(s)) THEN LStrip(Tail(s)) ELSE s

RECURSIVE RStrip(_)
RStrip(s) ==
    IF s # <<>> /\ IsSpace(s[Len(s)]) THEN RStrip(SubSeq(s, 1, Len(s) - 1)) ELSE s

\* Mutant: rstrip() in place of strip().
Strip_Right(s) == RStrip(s)

\* str.strip()
Strip(s) == RStrip(LStrip(s))

\* json.loads: the decoded value, or JSONDecodeError.
json_loads(req) ==
    IF Len(req) = 1 /\ req[1].k = "json"
    THEN [ok |-> TRUE, val |-> req[1].val]
    ELSE [ok |-> FALSE, val |-> JNull]

(* ----------------------------- collaborators --------------------------- *)

\* SentenceTransformer.encode: one vector per document, a fixed function of
\* the document's text.
Encode(doc) == <<"vec", doc>>

\* Mutant: add() in place of upsert(): an id already stored keeps its entry.
RECURSIVE Upsert_AddOnly(_, _, _, _, _)
Upsert_AddOnly(docs, ids, embeddings, documents, metadatas) ==
    IF ids = <<>> THEN docs
    ELSE LET entry == [embedding |-> Head(embeddings),
                       document |-> Head(documents),
                       metadata |-> Head(metadatas)]
             next == IF Head(ids) \in DOMAIN docs THEN docs
                     ELSE (Head(ids) :> entry) @@ docs
         IN Upsert_AddOnly(next, Tail(ids), Tail(embeddings),
                           Tail(documents), Tail(metadatas))

\* Mutant: the collection is emptied before the batch is written.
Upsert_Replace(docs, ids, embeddings, documents, metadatas) ==
    [id \in { ids[i] : i \in 1..Len(ids) } |->
        LET i == CHOOSE j \in 1..Len(ids) :
                     ids[j] = id /\ \A h \in 1..Len(ids) : ids[h] = id => h <= j
        IN [embedding |-> embeddings[i], document |-> documents[i],
            metadata |-> metadatas[i]]]

\* chromadb Collection.upsert: insert or overwrite by id, entries applied in
\* batch order.
RECURSIVE Upsert(_, _, _, _, _)
Upsert(docs, ids, embeddings, documents, metadatas) ==
    IF ids = <<>> THEN docs
    ELSE LET entry == [embedding |-> Head(embeddings),
                       document |-> Head(documents),
                       metadata |-> Head(metadatas)]
             rest == [k \in DOMAIN docs \ {Head(ids)} |-> docs[k]]
         IN Upsert((Head(ids) :> entry) @@ rest, Tail(ids), Tail(embeddings),
                   Tail(documents), Tail(metadatas))

\* Mutant: create_collection in place of get_or_create_collection, the
\* collection made anew on every call.
get_or_create_collection_Anew(st) ==
    [created |-> TRUE, docs |-> [k \in {} |-> JNull]]

\* client.get_or_create_collection: the collection is made, empty, when it
\* does not exist yet, and handed back as it is when it does.
get_or_create_collection(st) ==
    IF st.created THEN st ELSE [created |-> TRUE, docs |-> [k \in {} |-> JNull]]

\* The outcomes the collaborators can have during one request: all calls
\* return, or the named call raises.
Failures == {"none", "get_or_create_collection", "encode", "upsert"}

FailureMessage(call) == "failed: " \o call

(* ----------------------------- index_chunks ---------------------------- *)

\* The exception one pass of the loop body raises on a chunk ("" for none):
\* chunk["id"], chunk["content"], chunk.get("metadata", {}).
ChunkFault(chunk) ==
    IF chunk.t # "obj" THEN "TypeError: chunk is not subscriptable by key"
    ELSE IF "id" \notin DOMAIN chunk.o THEN "'id'"
    ELSE IF "content" \notin DOMAIN chunk.o THEN "'content'"
    ELSE ""

\* `for chunk in chunks`: the exception the loop ends with ("" for none).
\* Iterating a non-empty string or object yields strings, a number is not
\* iterable; a list yields its items in order.
LoopFault(chunks) ==
    IF chunks.t # "arr" THEN "TypeError: chunks is not a list of objects"
    ELSE IF \E i \in 1..Len(chunks.a) : ChunkFault(chunks.a[i]) # ""
    THEN LET i == CHOOSE j \in 1..Len(chunks.a) :
                    /\ ChunkFault(chunks.a[j]) # ""
                    /\ \A h \in 1..(j - 1) : ChunkFault(chunks.a[h]) = ""
         IN ChunkFault(chunks.a[i])
    ELSE ""

Ids(chunks) == [i \in 1..Len(chunks.a) |-> chunks.a[i].o["id"]]
Documents(chunks) == [i \in 1..Len(chunks.a) |-> chunks.a[i].o["content"]]
MetadataList(chunks) ==
    [i \in 1..Len(chunks.a) |-> DictGet(chunks.a[i], "metadata", EmptyObj)]
\* Mutant: the vectors come back in reverse order.
Embeddings_Reversed(documents) ==
    [i \in 1..Len(documents) |-> Encode(documents[Len(documents) + 1 - i])]

Embeddings(documents) == [i \in 1..Len(documents) |-> Encode(documents[i])]

\* Mutant: the size of the collection in place of the size of the batch.
IndexedCount_Collection(chunks, docs) == Cardinality(DOMAIN docs)

\* `len(chunks)` of the success result.
IndexedCount(chunks, docs) == Len(chunks.a)

\* Mutant: a success that carries a message as well.
SuccessResult_WithMessage(req_id, count) ==
    [id |-> req_id, status |-> "success", indexed_count |-> count,
     message |-> "indexed"]

SuccessResult(req_id, count) ==
    [id |-> req_id, status |-> "success", indexed_count |-> count]

ErrorResult(req_id, message) ==
    [id |-> req_id, status |-> "error", message |-> message]

\* What a call leaves behind: exc is the class of the exception that left
\* it ("" when it returned), failed the collaborator call that raised
\* ("none" when none did), calls the collaborator calls made, in order.
Raise(exc, message, st, calls, failed) ==
    [exc |-> exc, message |-> message, store |-> st, calls |-> calls,
     failed |-> failed, result |-> JNull]

Return(res, st, calls) ==
    [exc |-> "", message |-> "", store |-> st, calls |-> calls,
     failed |-> "none", result |-> res]

\* Mutant: each chunk is embedded and upserted inside the loop, so the
\* chunks before a malformed one are stored.
index_chunks_ChunkByChunk(st, req_id, chunks, fail) ==
    IF fail # "none"
    THEN Raise("CollaboratorError", FailureMessage(fail), st,
               <<"get_or_create_collection">>, fail)
    ELSE LET st1 == get_or_create_collection(st) IN
    IF chunks.t # "arr"
    THEN Raise("TypeError", LoopFault(chunks), st1,
               <<"get_or_create_collection">>, "none")
    ELSE LET good == { n \in 0..Len(chunks.a) :
                         \A h \in 1..n : ChunkFault(chunks.a[h]) = "" }
             n == CHOOSE k \in good : \A h \in good : h <= k
             pre == JArr(SubSeq(chunks.a, 1, n))
             docs == Upsert(st1.docs, Ids(pre), Embeddings(Documents(pre)),
                            Documents(pre), MetadataList(pre))
             st2 == [st1 EXCEPT !.docs = docs]
         IN IF n < Len(chunks.a)
            THEN Raise("KeyError", LoopFault(chunks), st2,
                       <<"get_or_create_collection">>, "none")
            ELSE Return(SuccessResult(req_id, IndexedCount(chunks, docs)), st2,
                        <<"get_or_create_collection", "encode", "upsert">>)

\* index_chunks(client, req_id, chunks, model) on store `st`, the
\* collaborators behaving as `fail` says.
index_chunks(st, req_id, chunks, fail) ==
    IF fail = "get_or_create_collection"
    THEN Raise("CollaboratorError", FailureMessage(fail), st,
               <<"get_or_create_collection">>, fail)
    ELSE LET st1 == get_or_create_collection(st) IN
    IF LoopFault(chunks) # ""
    THEN Raise(IF LoopFault(chunks) \in {"'id'", "'content'"}
               THEN "KeyError" ELSE "TypeError",
               LoopFault(chunks), st1, <<"get_or_create_collection">>, "none")
    ELSE IF fail = "encode"
    THEN Raise("CollaboratorError", FailureMessage(fail), st1,
               <<"get_or_create_collection", "encode">>, fail)
    ELSE IF fail = "upsert"
    THEN Raise("CollaboratorError", FailureMessage(fail), st1,
               <<"get_or_create_collection", "encode", "upsert">>, fail)
    ELSE LET docs == Upsert(st1.docs, Ids(chunks),
                            Embeddings(Documents(chunks)),
                            Documents(chunks), MetadataList(chunks))
         IN Return(SuccessResult(req_id, IndexedCount(chunks, docs)),
                   [st1 EXCEPT !.docs = docs],
                   <<"get_or_create_collection", "encode", "upsert">>)

(* ----------------------------- process_request ------------------------- *)

\* input_data.get("meta", {}).get("id", req_id): raises AttributeError when
\* input_data or meta is not an object.
MetaIdRaises(input_data) ==
    \/ input_data.t # "obj"
    \/ DictGet(input_data, "meta", EmptyObj).t # "obj"

\* Mutant: the caller's id is not looked up.
MetaId_Generated(input_data, req_id) == req_id

MetaId(input_data, req_id) ==
    DictGet(DictGet(input_data, "meta", EmptyObj), "id", req_id)

\* The body of the try block.  req_id is the variable's value when the
\* block is left: the uuid until the assignment of line 17 completes.
TryBlock(st, req, gen, fail) ==
    LET parsed == json_loads(req)
        input_data == parsed.val
    IN
    IF ~parsed.ok
    THEN [req_id |-> gen,
          out |-> Raise("JSONDecodeError", "decode error", st, <<>>, "none")]
    ELSE IF MetaIdRaises(input_data)
    THEN [req_id |-> gen,
          out |-> Raise("AttributeError", "object has no attribute 'get'",
                        st, <<>>, "none")]
    ELSE LET req_id == MetaId(input_data, gen)
             chunks == DictGet(input_data, "chunks", JArr(<<>>))
         IN [req_id |-> req_id,
             out |-> IF Truthy(chunks)
                     THEN index_chunks(st, req_id, chunks, fail)
                     ELSE Return(ErrorResult(req_id, "No chunks provided"),
                                 st, <<>>)]

\* Mutant: no handler of its own for the decoder's error.
IsDecodeError_Never(exc) == FALSE

\* `except json.JSONDecodeError`
IsDecodeError(exc) == exc = "JSONDecodeError"

\* Mutant: a handler for the collaborators' and the decoder's errors only.
IsException_Narrow(exc) == exc \in {"JSONDecodeError", "CollaboratorError"}

\* Mutant: a handler for the interpreter's own exception classes only.
IsException_Builtin(exc) ==
    exc \in {"JSONDecodeError", "AttributeError", "KeyError", "TypeError"}

\* Mutant: the handler lets an AttributeError through.
IsException_NoAttributeError(exc) ==
    exc \in {"JSONDecodeError", "KeyError", "TypeError", "CollaboratorError"}

\* `except Exception`: every exception class the block raises derives from
\* Exception.
IsException(exc) ==
    exc \in {"JSONDecodeError", "AttributeError", "KeyError", "TypeError",
             "CollaboratorError"}

\* process_request(client, req, model): uuid is the value uuid.uuid4()
\* gives.  escaped: an exception leaves process_request.
process_request(st, req, uuid, fail) ==
    LET t == TryBlock(st, req, JStr(uuid), fail)
        o == t.out
        res == IF o.exc = "" THEN o.result
               ELSE IF IsDecodeError(o.exc)
               THEN ErrorResult(t.req_id, "Invalid JSON: " \o o.message)
               ELSE ErrorResult(t.req_id, o.message)
    IN [escaped |-> o.exc # "" /\ ~IsDecodeError(o.exc) /\ ~IsException(o.exc),
        result |-> res, store |-> o.store, calls |-> o.calls,
        failed |-> o.failed]

(* ----------------------------- the inputs ------------------------------ *)

ChunkA1X == JObj(("id" :> JStr("a1")) @@ ("content" :> JStr("X")))
ChunkA1Y ==
    JObj(("id" :> JStr("a1")) @@ ("content" :> JStr("Y"))
         @@ ("metadata" :> JObj("lang" :> JStr("js"))))
ChunkA2X ==
    JObj(("id" :> JStr("a2")) @@ ("content" :> JStr("X"))
         @@ ("metadata" :> JObj("lang" :> JStr("py"))))
ChunkNoId == JObj("content" :> JStr("X"))
ChunkNoContent == JObj("id" :> JStr("a2"))

Meta(id) == JObj("id" :> id)
WithMeta(meta, chunks) == JObj(("meta" :> meta) @@ ("chunks" :> chunks))
ChunksOnly(chunks) == JObj("chunks" :> chunks)

\* The JSON texts sent: every shape of `meta` with a good batch or none, and
\* every shape of `chunks` under a caller-supplied id.
JsonTexts ==
    { JNull,
      ChunksOnly(JArr(<<ChunkA1X>>)),
      ChunksOnly(JArr(<<>>)),
      JObj("meta" :> Meta(JStr("r1"))),
      WithMeta(Meta(JStr("r1")), JArr(<<ChunkA1X>>)),
      WithMeta(Meta(JStr("r2")), JArr(<<ChunkA1Y, ChunkA2X>>)),
      WithMeta(Meta(JStr("")), JArr(<<ChunkA1X>>)),
      WithMeta(Meta(JNull), JArr(<<>>)),
      WithMeta(JNull, JArr(<<ChunkA1X>>)),
      WithMeta(Meta(JStr("r1")), JArr(<<ChunkA2X, ChunkNoId>>)),
      WithMeta(Meta(JStr("r2")), JArr(<<ChunkA1X, ChunkNoContent>>)),
      WithMeta(Meta(JStr("r2")), JStr("chunks")) }

\* Lines ended by a newline.
TerminatedLines ==
    { <<Nl>>, <<Ws, Nl>>, <<ExitTok, Nl>>, <<Ws, ExitTok, Ws, Nl>>,
      <<GarbageTok, Nl>> }
    \cup { <<JsonTok(v), Nl>> : v \in JsonTexts }

\* A last line the stream ends in the middle of.
UnterminatedLines ==
    { <<JsonTok(ChunksOnly(JArr(<<ChunkA1X>>)))>> }

RECURSIVE SeqsUpTo(_, _)
SeqsUpTo(S, n) ==
    IF n = 0 THEN { <<>> }
    ELSE LET shorter == SeqsUpTo(S, n - 1)
         IN shorter \cup { Append(q, x) : q \in shorter, x \in S }

\* What stdin can hold: at most MaxLines lines, only the last of which may
\* lack its newline.
Inputs ==
    LET full == SeqsUpTo(TerminatedLines, MaxLines)
    IN full \cup { Append(q, u) : q \in { f \in full : Len(f) < MaxLines },
                                  u \in UnterminatedLines }

\* The values uuid.uuid4() returns.
GenIds == { "uuid-1", "uuid-2" }

(* ----------------------------- state ----------------------------------- *)

VARIABLES
    pc,         \* where main is: "wait", "load_model", "connect", "ready",
                \* "read", "process", "emit", "exited"
    wait,       \* frame of wait_for_server: timeout and time.time() - start_time
    stdin,      \* the lines the parent wrote before closing the stream
    pos,        \* how many lines of stdin have been read
    request,    \* main's `request`: the stripped line being served
    result,     \* main's `result`
    buf,        \* lines printed to sys.stdout and not yet flushed
    stdout,     \* lines delivered to the parent
    stderr,     \* diagnostics printed to sys.stderr
    exit_code,  \* the process's exit status, NoExit while it runs
    store,      \* the vector store: collection created?, entries by id
    calls,      \* collaborator calls made for the current request
    failed      \* the collaborator call that raised in it, "none" if none

vars == <<pc, wait, stdin, pos, request, result, buf, stdout, stderr,
          exit_code, store, calls, failed>>

NoExit == -1
NoFrame == [timeout |-> 0, elapsed |-> 0]
NoResult == JNull
ReadyLine == [status |-> "READY"]
EmptyStore == [created |-> FALSE, docs |-> [k \in {} |-> JNull]]

\* --timeout is an int of seconds; the loop compares it with a clock that
\* the model counts in sleeps.
Deadline(timeout) == timeout * TicksPerSecond

\* How long one failed probe takes, in sleeps, before the sleep itself.
ProbeTicks == { 0, 1 }

Init ==
    /\ pc = "wait"
    /\ wait \in { [timeout |-> t, elapsed |-> 0] : t \in MinTimeout..MaxTimeout }
    /\ stdin \in Inputs
    /\ pos = 0
    /\ request = <<>>
    /\ result = NoResult
    /\ buf = <<>>
    /\ stdout = <<>>
    /\ stderr = <<>>
    /\ exit_code = NoExit
    /\ store = EmptyStore
    /\ calls = <<>>
    /\ failed = "none"

\* Process exit: the interpreter flushes sys.stdout and reports `code`.
Exit(code) ==
    /\ pc' = "exited"
    /\ exit_code' = code
    /\ stdout' = stdout \o buf
    /\ buf' = <<>>

(* ----------------------------- wait_for_server ------------------------- *)

\* Mutant: the loop still runs when the clock is exactly at the deadline.
WaitLoopRuns_Inclusive == wait.elapsed <= Deadline(wait.timeout)

\* Mutant: a loop that tests the clock after its first pass only.
WaitLoopRuns_ProbeFirst ==
    wait.elapsed = 0 \/ wait.elapsed < Deadline(wait.timeout)

\* `while time.time() - start_time < timeout`
WaitLoopRuns == wait.elapsed < Deadline(wait.timeout)

\* A probe succeeds: HttpClient(...) and heartbeat() return; return True.
WaitProbeOk ==
    /\ pc = "wait"
    /\ WaitLoopRuns
    /\ stderr' = Append(stderr, "server available")
    /\ wait' = NoFrame
    /\ pc' = "load_model"
    /\ UNCHANGED <<stdin, pos, request, result, buf, stdout, exit_code, store,
                   calls, failed>>

\* A probe raises: the exception is swallowed and the loop sleeps 0.2 s.
\* Clock values past the deadline all end the loop, so the count stops there.
WaitProbeFail ==
    /\ pc = "wait"
    /\ WaitLoopRuns
    /\ \E d \in ProbeTicks :
         wait' = [wait EXCEPT !.elapsed =
                    IF wait.elapsed + d + 1 > Deadline(wait.timeout)
                    THEN Deadline(wait.timeout)
                    ELSE wait.elapsed + d + 1]
    /\ UNCHANGED <<pc, stdin, pos, request, result, buf, stdout, stderr,
                   exit_code, store, calls, failed>>

\* The loop ends without a successful probe: return False, main exits 1.
WaitTimeout ==
    /\ pc = "wait"
    /\ ~WaitLoopRuns
    /\ stderr' = stderr \o <<"server not available", "unable to join">>
    /\ Exit(1)
    /\ UNCHANGED <<wait, stdin, pos, request, result, store, calls, failed>>

(* ----------------------------- main: startup --------------------------- *)

LoadModelOk ==
    /\ pc = "load_model"
    /\ stderr' = Append(stderr, "model loaded")
    /\ pc' = "connect"
    /\ UNCHANGED <<wait, stdin, pos, request, result, buf, stdout, exit_code,
                   store, calls, failed>>

\* Mutant: the failure is reported and startup goes on (no sys.exit).
LoadModelFail_NoExit ==
    /\ pc = "load_model"
    /\ stderr' = stderr \o <<"model load failed", "run cache_model">>
    /\ pc' = "connect"
    /\ UNCHANGED <<wait, stdin, pos, request, result, buf, stdout, exit_code,
                   store, calls, failed>>

LoadModelFail ==
    /\ pc = "load_model"
    /\ stderr' = stderr \o <<"model load failed", "run cache_model">>
    /\ Exit(1)
    /\ UNCHANGED <<wait, stdin, pos, request, result, store, calls, failed>>

ConnectOk ==
    /\ pc = "connect"
    /\ stderr' = Append(stderr, "connected")
    /\ pc' = "ready"
    /\ UNCHANGED <<wait, stdin, pos, request, result, buf, stdout, exit_code,
                   store, calls, failed>>

ConnectFail ==
    /\ pc = "connect"
    /\ stderr' = Append(stderr, "connect failed")
    /\ Exit(1)
    /\ UNCHANGED <<wait, stdin, pos, request, result, store, calls, failed>>

\* print(line); sys.stdout.flush()
PrintFlush(line) ==
    /\ stdout' = stdout \o buf \o <<line>>
    /\ buf' = <<>>

\* Mutant: READY is printed and left in the buffer (no flush).
EmitReady_NoFlush ==
    /\ pc = "ready"
    /\ buf' = Append(buf, ReadyLine)
    /\ pc' = "read"
    /\ UNCHANGED <<wait, stdin, pos, request, result, stdout, stderr,
                   exit_code, store, calls, failed>>

EmitReady ==
    /\ pc = "ready"
    /\ PrintFlush(ReadyLine)
    /\ pc' = "read"
    /\ UNCHANGED <<wait, stdin, pos, request, result, stderr, exit_code, store,
                   calls, failed>>

(* ----------------------------- main: the loop -------------------------- *)

\* Mutant: a last line without its newline is dropped with the stream's end.
Readline_DropsUnterminated ==
    IF pos < Len(stdin) /\ stdin[pos + 1][Len(stdin[pos + 1])] = Nl
    THEN stdin[pos + 1] ELSE <<>>

\* sys.stdin.readline(): the next line, or the empty string at end-of-stream.
Readline == IF pos < Len(stdin) THEN stdin[pos + 1] ELSE <<>>

\* Mutant: a line that is not JSON ends the loop like `exit`.
Breaks_NonJson(req) == req = <<>> \/ req = <<ExitTok>> \/ req = <<GarbageTok>>

\* Mutant: only an empty request ends the loop.
Breaks_BlankOnly(req) == req = <<>>

\* `if not request or request == "exit": break`
Breaks(req) == req = <<>> \/ req = <<ExitTok>>

\* `if not line: break` -- the stream has ended; main returns.
ReadEof ==
    /\ pc = "read"
    /\ Readline = <<>>
    /\ Exit(0)
    /\ UNCHANGED <<wait, stdin, pos, request, result, stderr, store, calls,
                   failed>>

\* A line is read and, stripped, ends the loop; main returns.
ReadBreak ==
    /\ pc = "read"
    /\ Readline # <<>>
    /\ Breaks(Strip(Readline))
    /\ pos' = pos + 1
    /\ request' = Strip(Readline)
    /\ Exit(0)
    /\ UNCHANGED <<wait, stdin, result, stderr, store, calls, failed>>

\* A line is read and goes on to process_request.
ReadRequest ==
    /\ pc = "read"
    /\ Readline # <<>>
    /\ ~Breaks(Strip(Readline))
    /\ pos' = pos + 1
    /\ request' = Strip(Readline)
    /\ pc' = "process"
    /\ calls' = <<>>
    /\ failed' = "none"
    /\ UNCHANGED <<wait, stdin, result, buf, stdout, stderr, exit_code, store>>

\* result = process_request(client, request, model).  An exception that
\* left process_request would end main with a traceback and status 1.
Dispatch ==
    /\ pc = "process"
    /\ \E uuid \in GenIds, fail \in Failures :
         LET r == process_request(store, request, uuid, fail)
         IN /\ store' = r.store
            /\ calls' = r.calls
            /\ failed' = r.failed
            /\ IF r.escaped
               THEN /\ stderr' = Append(stderr, "traceback")
                    /\ Exit(1)
                    /\ UNCHANGED result
               ELSE /\ result' = r.result
                    /\ pc' = "emit"
                    /\ UNCHANGED <<buf, stdout, stderr, exit_code>>
    /\ UNCHANGED <<wait, stdin, pos, request>>

\* Mutant: only a success is reported; an error result is dropped.
EmitResult_ErrorsSilent ==
    /\ pc = "emit"
    /\ IF result.status = "success"
       THEN PrintFlush(result)
       ELSE UNCHANGED <<buf, stdout>>
    /\ pc' = "read"
    /\ UNCHANGED <<wait, stdin, pos, request, result, stderr, exit_code, store,
                   calls, failed>>

\* Mutant: the result is printed and left in the buffer (no flush).
EmitResult_NoFlush ==
    /\ pc = "emit"
    /\ buf' = Append(buf, result)
    /\ pc' = "read"
    /\ UNCHANGED <<wait, stdin, pos, request, result, stdout, stderr,
                   exit_code, store, calls, failed>>

\* print(json.dumps(result)); sys.stdout.flush()
EmitResult ==
    /\ pc = "emit"
    /\ PrintFlush(result)
    /\ pc' = "read"
    /\ UNCHANGED <<wait, stdin, pos, request, result, stderr, exit_code, store,
                   calls, failed>>

Next ==
    \/ WaitProbeOk
    \/ WaitProbeFail
    \/ WaitTimeout
    \/ LoadModelOk
    \/ LoadModelFail
    \/ ConnectOk
    \/ ConnectFail
    \/ EmitReady
    \/ ReadEof
    \/ ReadBreak
    \/ ReadRequest
    \/ Dispatch
    \/ EmitResult

Spec == Init /\ [][Next]_vars

(* ----------------------------- reading the streams --------------------- *)

\* What a line says once its whitespace is set aside.
Text(line) == SelectSeq(line, LAMBDA tok : tok.k \notin {"ws", "nl"})

\* The line is the token exit and nothing else.
LiteralExit(line) == line \in { <<ExitTok, Nl>>, <<ExitTok>> }

\* The line is blank, or says exit, once surrounding whitespace is ignored.
BlankOrExit(line) == Text(line) \in { <<>>, <<ExitTok>> }

IsJsonLine(line) == Len(Text(line)) = 1 /\ Text(line)[1].k = "json"
JsonOf(line) == Text(line)[1].val

\* The line is a JSON object whose meta is an object with an id.
HasMetaId(line) ==
    /\ IsJsonLine(line)
    /\ JsonOf(line).t = "obj"
    /\ "meta" \in DOMAIN JsonOf(line).o
    /\ JsonOf(line).o["meta"].t = "obj"
    /\ "id" \in DOMAIN JsonOf(line).o["meta"].o

MetaIdOf(line) == JsonOf(line).o["meta"].o["id"]

Generated == { JStr(g) : g \in GenIds }

\* The lines read so far that asked for something.
RequestLinesRead == { k \in 1..pos : ~BlankOrExit(stdin[k]) }

\* The response that went out for the k-th line read.
Response(k) == stdout[k + 1]
Answered(k) == Len(stdout) >= k + 1

\* resp is a response to line: a success or an error that carries the
\* line's own id when it has one and a generated one otherwise.
Answers(resp, line) ==
    /\ DOMAIN resp \in { {"id", "status", "indexed_count"},
                         {"id", "status", "message"} }
    /\ resp.status \in {"success", "error"}
    /\ IF HasMetaId(line) THEN resp.id = MetaIdOf(line)
                          ELSE resp.id \in Generated

(* ----------------------------- C1 -------------------------------------- *)

C2_ProcessRequestTotal ==
    /\ pc = "emit" =>
         /\ {"id", "status"} \subseteq DOMAIN result
         /\ result.status \in {"success", "error"}
    /\ pos > 0 => exit_code # 1
    /\ \A i \in 1..Len(stderr) : stderr[i] # "traceback"

\* A JSON value that is no object was answered with an error, and a batch
\* with a chunk lacking its id has just been turned into an error result.
C2_Witness ==
    /\ pc = "emit" /\ pos = 2
    /\ stdin[1] = <<JsonTok(JNull), Nl>>
    /\ Response(1).status = "error"
    /\ request = <<JsonTok(WithMeta(Meta(JStr("r1")),
                                    JArr(<<ChunkA2X, ChunkNoId>>)))>>
    /\ result.status = "error"

(* ----------------------------- C3 -------------------------------------- *)

Range(q) == { q[i] : i \in 1..Len(q) }

\* A request with valid structure: a JSON object, meta absent or an object,
\* chunks a non-empty list of objects that each have id and content.
WellFormed(line) ==
    /\ IsJsonLine(line)
    /\ JsonOf(line).t = "obj"
    /\ "meta" \in DOMAIN JsonOf(line).o => JsonOf(line).o["meta"].t = "obj"
    /\ "chunks" \in DOMAIN JsonOf(line).o
    /\ JsonOf(line).o["chunks"].t = "arr"
    /\ JsonOf(line).o["chunks"].a # <<>>
    /\ \A c \in Range(JsonOf(line).o["chunks"].a) :
         c.t = "obj" /\ {"id", "content"} \subseteq DOMAIN c.o

ChunksOf(line) == JsonOf(line).o["chunks"].a
NChunks(line) == Len(ChunksOf(line))

\* The entry a chunk is stored as.
StoredAs(c) ==
    [embedding |-> <<"vec", c.o["content"]>>,
     document |-> c.o["content"],
     metadata |-> IF "metadata" \in DOMAIN c.o THEN c.o["metadata"]
                  ELSE EmptyObj]

\* The store holds each chunk of the line under its id (ids distinct in it).
HoldsBatch(docs, line) ==
    \A c \in Range(ChunksOf(line)) :
        c.o["id"] \in DOMAIN docs /\ docs[c.o["id"]] = StoredAs(c)

Malformed(line) == ~IsJsonLine(line) /\ ~BlankOrExit(line)

C3_State ==
    /\ \A k \in 1..pos : Malformed(stdin[k]) =>
         /\ exit_code # 1
         /\ (k < pos \/ pc \in {"read", "exited"}) =>
              /\ Answered(k)
              /\ Response(k).status = "error"
              /\ Response(k).id \in Generated
         /\ (k = pos /\ pc = "read") => Len(stdout) = k + 1
         /\ (k = pos /\ pc = "exited") => pos = Len(stdin)
    /\ (/\ pc = "read" /\ pos >= 1 /\ WellFormed(stdin[pos]) /\ failed = "none"
        /\ \A k \in 1..(pos - 1) : Malformed(stdin[k])) =>
         /\ result.status = "success"
         /\ result.indexed_count = NChunks(stdin[pos])
         /\ HoldsBatch(store.docs, stdin[pos])
         /\ DOMAIN store.docs = { c.o["id"] : c \in Range(ChunksOf(stdin[pos])) }

C3_Step ==
    (pc \in {"process", "emit"} /\ Malformed(stdin[pos])) =>
        /\ store' = store
        /\ calls' = <<>>
        /\ pc' \in {"emit", "read"}

C4_ReadyOnceFirstAfterStartup ==
    /\ Cardinality({ k \in 1..Len(stdout) : stdout[k] = ReadyLine }) <= 1
    /\ ReadyLine \notin Range(buf)
    /\ stdout # <<>> =>
         /\ stdout[1] = ReadyLine
         /\ {"server available", "model loaded", "connected"}
                \subseteq Range(stderr)
    /\ (pos > 0 \/ pc \in {"read", "process", "emit"}) =>
         (stdout # <<>> /\ stdout[1] = ReadyLine)

\* READY went out, then a request was read and answered.
C4_Witness ==
    /\ pos = 1 /\ Len(stdout) = 2
    /\ stdout[1] = ReadyLine
    /\ stdout[2].status = "success"

(* ----------------------------- C5 -------------------------------------- *)

StartupFailures ==
    {"server not available", "model load failed", "connect failed"}

\* C5: a readiness timeout, a model that does not load or a client that
\* cannot be constructed ends the process with a non-zero status, nothing
\* on stdout and no line read; the diagnostic is on stderr.
C5_StartupFailureIsSilentOnStdout ==
    /\ Range(stderr) \cap StartupFailures # {} =>
         /\ pc = "exited" /\ exit_code = 1
         /\ stdout = <<>> /\ buf = <<>>
         /\ pos = 0
    /\ exit_code = 1 =>
         /\ Range(stderr) \cap StartupFailures # {}
         /\ stdout = <<>> /\ pos = 0

\* The server answered and the model loaded, but the client could not be
\* constructed.
C5_Witness ==
    /\ exit_code = 1
    /\ "connect failed" \in Range(stderr)
    /\ "model loaded" \in Range(stderr)
    /\ Len(stdin) > 0

(* ----------------------------- C6 -------------------------------------- *)

C6_State ==
    /\ \A k \in 1..pos : LiteralExit(stdin[k]) =>
         /\ k = pos
         /\ pc = "exited" /\ exit_code = 0
         /\ Len(stdout) = pos
    /\ (pc = "exited" /\ stdout # <<>>) => exit_code = 0

C6_Step ==
    /\ (pc = "read" /\ (pos = Len(stdin) \/ LiteralExit(stdin[pos + 1]))) =>
         /\ pc' = "exited" /\ exit_code' = 0
         /\ stdout' = stdout
         /\ store' = store
    /\ pc # "exited"

\* C6: after READY, `exit` or end-of-stream ends the daemon with status 0
\* and nothing more on stdout; a line `exit` is the last line ever read, so
\* what follows it is neither processed nor answered, and nothing at all
\* happens once the process has exited.
C6_ExitOrEofEndsCleanly == []C6_State /\ [][C6_Step]_vars

\* `exit` came first: the daemon ended with READY alone on stdout and the
\* line after `exit` unread.
C6_Witness ==
    /\ pc = "exited" /\ exit_code = 0
    /\ pos = 1 /\ Len(stdin) = 2
    /\ LiteralExit(stdin[1])
    /\ WellFormed(stdin[2])
    /\ stdout = <<ReadyLine>>
    /\ store = EmptyStore

(* ----------------------------- C7 -------------------------------------- *)

C7_Step ==
    /\ pc = "read" =>
         IF pos = Len(stdin) \/ BlankOrExit(stdin[pos + 1])
         THEN pc' = "exited" /\ exit_code' = 0 /\ stdout' = stdout
         ELSE pc' = "process" /\ pos' = pos + 1 /\ stdout' = stdout
    /\ pc = "process" => (pc' = "emit" /\ stdout' = stdout /\ pos' = pos)
    /\ pc = "emit" =>
         /\ pc' = "read" /\ pos' = pos
         /\ Len(stdout') = Len(stdout) + 1
         /\ SubSeq(stdout', 1, Len(stdout)) = stdout
         /\ Answers(stdout'[Len(stdout')], stdin[pos])

C8_MetaIdEchoed ==
    /\ \A k \in 1..pos :
         (HasMetaId(stdin[k]) /\ MetaIdOf(stdin[k]) # JStr("") /\ Answered(k))
             => Response(k).id = MetaIdOf(stdin[k])
    /\ (pc = "emit" /\ HasMetaId(stdin[pos]) /\ MetaIdOf(stdin[pos]) # JStr(""))
             => result.id = MetaIdOf(stdin[pos])

\* A success under r2, and after it a pipeline error under r1.
C8_Witness ==
    /\ pos = 2 /\ Len(stdout) = 3
    /\ HasMetaId(stdin[1]) /\ HasMetaId(stdin[2])
    /\ MetaIdOf(stdin[1]) = JStr("r2") /\ Response(1).status = "success"
    /\ Response(1).id = JStr("r2")
    /\ MetaIdOf(stdin[2]) = JStr("r1") /\ Response(2).status = "error"
    /\ Response(2).id = JStr("r1")
    /\ failed = "encode"

(* ----------------------------- C9 -------------------------------------- *)

\* C9: the id of every response on stdout is a non-empty string.
C9_ResponseIdNonEmptyString ==
    \A k \in 2..Len(stdout) : stdout[k].id.t = "str" /\ stdout[k].id.v # ""

(* ----------------------------- C10 ------------------------------------- *)

\* C10 as stated: every well-formed request with a non-empty chunk list is
\* answered with a success that counts its chunks.
C10_WellFormedAlwaysSucceeds ==
    \A k \in 1..pos :
        (WellFormed(stdin[k]) /\ Answered(k)) =>
            /\ Response(k).status = "success"
            /\ Response(k).indexed_count = NChunks(stdin[k])

\* C10, amended: a well-formed request with a non-empty chunk list whose
\* embedding and store calls all return is answered with a success, and
\* the indexed_count of a success is the number of chunks of its own
\* request, whatever the collection holds and whatever was served before.
C10_IndexedCountIsBatchSize ==
    /\ \A k \in 1..pos :
         (WellFormed(stdin[k]) /\ Answered(k)
            /\ Response(k).status = "success")
             => Response(k).indexed_count = NChunks(stdin[k])
    /\ (pc = "emit" /\ WellFormed(stdin[pos]) /\ failed = "none") =>
         /\ result.status = "success"
         /\ result.indexed_count = NChunks(stdin[pos])

\* A batch of two, then a batch of one into a collection that keeps two
\* entries: the counts are 2 and 1.
C10_Witness ==
    /\ pc = "read" /\ pos = 2 /\ Len(stdout) = 3
    /\ WellFormed(stdin[1]) /\ WellFormed(stdin[2])
    /\ Response(1).status = "success" /\ Response(2).status = "success"
    /\ NChunks(stdin[1]) = 2 /\ Response(1).indexed_count = 2
    /\ NChunks(stdin[2]) = 1 /\ Response(2).indexed_count = 1
    /\ Cardinality(DOMAIN store.docs) = 2

(* ----------------------------- C11 ------------------------------------- *)

\* The k-th line read was a request that ended in a success.
Succeeded(k) ==
    IF Answered(k) THEN Response(k).status = "success"
    ELSE k = pos /\ pc = "emit" /\ result.status = "success"

\* The lines that stored a chunk under id, and the chunk the latest of them
\* carried under it.
Writers(id) ==
    { k \in 1..pos : Succeeded(k) /\ \E c \in Range(ChunksOf(stdin[k])) : c.o["id"] = id }

LastWriter(id) == CHOOSE k \in Writers(id) : \A j \in Writers(id) : j <= k

LatestChunk(id) ==
    LET cs == ChunksOf(stdin[LastWriter(id)])
        i == CHOOSE n \in 1..Len(cs) :
                /\ cs[n].o["id"] = id
                /\ \A m \in (n + 1)..Len(cs) : cs[m].o["id"] # id
    IN cs[i]

ChunkIds == { JStr("a1"), JStr("a2") }

\* C11: the store holds exactly one entry for each chunk id a successful
\* request carried and none for any other id; the entry has the content and
\* metadata of the most recent successful request with that id, so X then Y
\* under a1 leaves Y alone, and a request sent twice leaves what it left
\* the first time.
C11_UpsertOverwrites ==
    /\ DOMAIN store.docs = { id \in ChunkIds : Writers(id) # {} }
    /\ \A id \in DOMAIN store.docs : store.docs[id] = StoredAs(LatestChunk(id))
    /\ (/\ pc = "read" /\ pos = 2 /\ stdin[1] = stdin[2]
        /\ Succeeded(1) /\ Succeeded(2)) =>
         /\ HoldsBatch(store.docs, stdin[1])
         /\ Cardinality(DOMAIN store.docs) = NChunks(stdin[1])

\* a1 was indexed with X, then again with Y and new metadata: the store
\* holds Y under a1.
C11_Witness ==
    /\ pc = "read" /\ pos = 2
    /\ Succeeded(1) /\ Succeeded(2)
    /\ ChunkA1X \in Range(ChunksOf(stdin[1]))
    /\ ChunkA1Y \in Range(ChunksOf(stdin[2]))
    /\ store.docs[JStr("a1")] = StoredAs(ChunkA1Y)
    /\ store.docs[JStr("a1")].document = JStr("Y")

(* ----------------------------- C12 ------------------------------------- *)

\* The line is a JSON object whose chunks is missing or an empty list.
NoChunks(line) ==
    /\ IsJsonLine(line)
    /\ JsonOf(line).t = "obj"
    /\ \/ "chunks" \notin DOMAIN JsonOf(line).o
       \/ JsonOf(line).o["chunks"] = JArr(<<>>)

\* C12: a request that parses as a JSON object whose chunks is missing or an
\* empty list is answered with an error whose message is exactly
\* "no chunks provided"; no collaborator is called for it and the loop goes
\* on to the next line.
C12_NoChunksMessage ==
    \A k \in 1..pos : NoChunks(stdin[k]) =>
        /\ exit_code # 1
        /\ (k = pos /\ pc = "emit") =>
             /\ result.status = "error"
             /\ result.message = "no chunks provided"
             /\ calls = <<>>
        /\ Answered(k) =>
             /\ Response(k).status = "error"
             /\ Response(k).message = "no chunks provided"


(* ----------------------------- C13 ------------------------------------- *)

\* The parse diagnostic: the decoder's text behind the handler's prefix.
ParseDiagnostic == "Invalid JSON: decode error"

C13_State ==
    \A k \in 1..pos : Malformed(stdin[k]) =>
        /\ (k = pos /\ pc = "emit") =>
             /\ result \in { ErrorResult(g, ParseDiagnostic) : g \in Generated }
             /\ calls = <<>> /\ failed = "none"
        /\ (k < pos \/ pc \in {"read", "exited"}) =>
             /\ Answered(k)
             /\ Response(k) \in
                  { ErrorResult(g, ParseDiagnostic) : g \in Generated }

C13_Step ==
    (pc = "process" /\ Malformed(stdin[pos])) =>
        /\ pc' = "emit"
        /\ store' = store
        /\ "encode" \notin Range(calls')
        /\ "upsert" \notin Range(calls')
        /\ "get_or_create_collection" \notin Range(calls')

CorrelationIds(line) ==
    IF HasMetaId(line) THEN { MetaIdOf(line) } ELSE Generated

\* C14: when get_or_create_collection, encode or upsert fails for a
\* well-formed request, the daemon emits one Error response with the
\* request's correlation id and the failure's description, stores nothing
\* for it, does not terminate, and answers the following request normally.
C14_PipelineFailureRecovered ==
    /\ \A k \in 1..pos : WellFormed(stdin[k]) => exit_code # 1
    /\ (/\ pos >= 1 /\ pc \in {"emit", "read"}
        /\ WellFormed(stdin[pos]) /\ failed # "none") =>
         /\ result \in { ErrorResult(i, FailureMessage(failed)) :
                           i \in CorrelationIds(stdin[pos]) }
         /\ pc = "read" => /\ Len(stdout) = pos + 1
                           /\ Response(pos) = result
         /\ pos = 1 => store.docs = EmptyStore.docs
    /\ (/\ pos = 2 /\ pc \in {"emit", "read"}
        /\ WellFormed(stdin[1]) /\ Response(1).status = "error"
        /\ WellFormed(stdin[2]) /\ failed = "none") =>
         /\ result \in { SuccessResult(i, NChunks(stdin[2])) :
                           i \in CorrelationIds(stdin[2]) }
         /\ HoldsBatch(store.docs, stdin[2])
         /\ pc = "read" => Len(stdout) = 3 /\ Response(2) = result

\* The upsert failed for the first request, which was answered with its id
\* and the failure; the second request was then indexed.
C14_Witness ==
    /\ pc = "read" /\ pos = 2 /\ Len(stdout) = 3
    /\ WellFormed(stdin[1]) /\ WellFormed(stdin[2])
    /\ HasMetaId(stdin[1])
    /\ Response(1) = ErrorResult(JStr("r1"), FailureMessage("upsert"))
    /\ Response(2).status = "success"
    /\ HoldsBatch(store.docs, stdin[2])

(* ----------------------------- C15 ------------------------------------- *)

\* A request has been read and its response is not on stdout yet.
InFlight == pc \in {"process", "emit"}

C15_State ==
    /\ pc = "read" => buf = <<>> /\ Len(stdout) = pos + 1
    /\ InFlight =>
         /\ pos >= 1 /\ ~BlankOrExit(stdin[pos])
         /\ buf = <<>> /\ Len(stdout) = pos
         /\ exit_code = NoExit
    /\ (pc = "exited" /\ pos >= 1) =>
         /\ exit_code = 0 /\ buf = <<>>
         /\ Len(stdout) = 1 + Cardinality(RequestLinesRead)
         /\ \A k \in RequestLinesRead : Answered(k)

C15_Step ==
    /\ pos' # pos =>
         /\ pc = "read" /\ pos' = pos + 1
         /\ buf = <<>> /\ Len(stdout) = pos + 1
    /\ InFlight =>
         /\ pc' # "exited" /\ exit_code' = NoExit /\ pos' = pos
         /\ pc' = "read" => stdout' = Append(stdout, result) /\ buf' = <<>>
    /\ (pc # "exited" /\ pc' = "exited" /\ stdout # <<>>) => pc = "read"

\* C15: requests are processed one at a time: a line is read only when the
\* responses to all the lines before it are on stdout, flushed; at most one
\* request is unanswered at any moment; end-of-stream and `exit` are seen
\* only between requests, so a request that was read is answered before the
\* daemon terminates.
C15_StrictlySequential == []C15_State /\ [][C15_Step]_vars

\* Two requests were served in turn and the stream then ended: both answers
\* are out, in order, and the daemon has stopped.
C15_Witness ==
    /\ pc = "exited" /\ exit_code = 0
    /\ pos = 2 /\ Len(stdin) = 2 /\ RequestLinesRead = {1, 2}
    /\ Len(stdout) = 3 /\ buf = <<>>
    /\ Response(1).id = JStr("r1") /\ Response(2).id = JStr("r2")

(* ----------------------------- C16 ------------------------------------- *)

\* The three shapes of a protocol line.
IsReady(obj) == obj = ReadyLine
IsSuccess(obj) ==
    /\ DOMAIN obj = {"id", "status", "indexed_count"}
    /\ obj.status = "success"
    /\ obj.indexed_count \in Nat
IsError(obj) ==
    /\ DOMAIN obj = {"id", "status", "message"}
    /\ obj.status = "error"
    /\ obj.message \in STRING

\* The texts of the diagnostics.
Diagnostics ==
    {"server available", "server not available", "unable to join",
     "model loaded", "model load failed", "run cache_model", "connected",
     "connect failed", "traceback"}

C16_State ==
    /\ \A obj \in Range(stdout) \cup Range(buf) :
         IsReady(obj) \/ IsSuccess(obj) \/ IsError(obj)
    /\ Range(stderr) \subseteq Diagnostics
    /\ (pc \in {"load_model", "connect", "ready"} \/ exit_code = 1) =>
         /\ stderr # <<>>
         /\ stdout = <<>> /\ buf = <<>>

C16_Step ==
    /\ stderr' # stderr => stdout' = stdout /\ buf' = buf
    /\ stdout' # stdout =>
         /\ stderr' = stderr
         /\ \E obj \in {ReadyLine, result} : stdout' = Append(stdout, obj)

\* C16: every line on stdout is the READY object, a Success {id, status,
\* indexed_count} with a natural indexed_count, or an Error {id, status,
\* message}, never a response with both indexed_count and message; the
\* diagnostics of the wait, the model load and the connection go to stderr
\* and the steps that write them leave stdout alone.
C16_StdoutCarriesProtocolOnly == []C16_State /\ [][C16_Step]_vars

\* After three diagnostics on stderr, stdout holds READY, a Success and an
\* Error, and nothing else.
C16_Witness ==
    /\ pc = "read" /\ Len(stdout) = 3 /\ Len(stderr) = 3
    /\ IsReady(stdout[1]) /\ IsSuccess(stdout[2]) /\ IsError(stdout[3])
    /\ stdout[2].indexed_count = 2

(* ----------------------------- C17 ------------------------------------- *)

\* The responses a daemon that has served nothing, on an empty store, gives
\* to the line when the collaborators behave as `fail` says.
FreshResponses(line, fail) ==
    { process_request(EmptyStore, Strip(line), g, fail).result : g \in GenIds }

\* C17: the response to a request line is the response a fresh daemon gives
\* to that line under the same collaborator behaviour, whatever lines were
\* processed before it and whatever they left in the store; only a
\* generated id may differ.
C17_ResponseIndependentOfHistory ==
    /\ pc = "emit" => result \in FreshResponses(stdin[pos], failed)
    /\ (pc = "read" /\ pos >= 1) =>
         Response(pos) \in FreshResponses(stdin[pos], failed)

\* A request served second, on a store the first request filled, is
\* answered as it would be served first.
C17_Witness ==
    /\ pc = "read" /\ pos = 2
    /\ stdin[1] # stdin[2]
    /\ WellFormed(stdin[1]) /\ WellFormed(stdin[2])
    /\ Response(1).status = "success"
    /\ Cardinality(DOMAIN store.docs) = 2
    /\ NChunks(stdin[2]) = 1
    /\ Response(2) = process_request(EmptyStore, Strip(stdin[2]), "uuid-1",
                                     "none").result

(* ----------------------------- C18 ------------------------------------- *)

\* The ids the request in hand may write: those of its chunks when it is
\* well-formed, none otherwise.
RequestIds ==
    IF WellFormed(stdin[pos])
    THEN { c.o["id"] : c \in Range(ChunksOf(stdin[pos])) }
    ELSE {}

C18_State ==
    /\ (/\ pos >= 1 /\ pc \in {"emit", "read"}
        /\ WellFormed(stdin[pos]) /\ failed = "none") =>
         /\ result.status = "success"
         /\ result.indexed_count = NChunks(stdin[pos])
    /\ \A k \in 1..pos : Succeeded(k) =>
         /\ Answered(k) => Response(k).indexed_count = NChunks(stdin[k])
         /\ \A c \in Range(ChunksOf(stdin[k])) :
              /\ c.o["id"] \in DOMAIN store.docs
              /\ (\A j \in (k + 1)..pos :
                    Succeeded(j) =>
                      \A d \in Range(ChunksOf(stdin[j])) : d.o["id"] # c.o["id"])
                 => store.docs[c.o["id"]] = StoredAs(c)

C18_Step ==
    pc = "process" =>
        \A id \in DOMAIN store.docs :
            /\ id \in DOMAIN store'.docs
            /\ id \notin RequestIds => store'.docs[id] = store.docs[id]

\* C18: requests sent one after another to one daemon each get a Success
\* with the size of their own batch when the collaborators' calls succeed;
\* serving a request leaves every stored entry whose id is not in that
\* request as it was, so the store holds the chunks of all the successful
\* requests, not only those of the last one.
C18_EarlierEntriesKept == []C18_State /\ [][C18_Step]_vars

\* A batch of a1 and a2, then a batch of a1 alone, then end-of-stream: the
\* counts are 2 and 1 and the entry of a2 is the first request's.
C18_Witness ==
    /\ pc = "exited" /\ exit_code = 0 /\ pos = 2
    /\ Succeeded(1) /\ Succeeded(2)
    /\ Response(1).indexed_count = 2 /\ Response(2).indexed_count = 1
    /\ ChunkA2X \in Range(ChunksOf(stdin[1]))
    /\ ChunkA2X \notin Range(ChunksOf(stdin[2]))
    /\ store.docs[JStr("a2")] = StoredAs(ChunkA2X)
    /\ store.docs[JStr("a1")] = StoredAs(ChunkA1X)

(* ----------------------------- two daemons, one store ------------------ *)

\* Daemon instances started on the same host, port and collection.  Each
\* has its own stdin, stdout and locals: the variables hold one value per
\* instance.  The store is the one they share.
Instances == {"d1", "d2"}

\* Requests sent to one instance, at most.
MaxRequests == 2

\* The lines sent: two well-formed requests that both carry a1, with
\* different content and metadata.
SharedLines ==
    { <<JsonTok(WithMeta(Meta(JStr("r1")), JArr(<<ChunkA1X>>))), Nl>>,
      <<JsonTok(WithMeta(Meta(JStr("r2")), JArr(<<ChunkA1Y, ChunkA2X>>))), Nl>> }

SharedInputs == UNION { [1..n -> SharedLines] : n \in 0..MaxRequests }

\* Both instances have printed READY and sit at their first readline.
SharedInit ==
    /\ pc = [d \in Instances |-> "read"]
    /\ stdin \in [Instances -> SharedInputs]
    /\ pos = [d \in Instances |-> 0]
    /\ request = [d \in Instances |-> <<>>]
    /\ result = [d \in Instances |-> NoResult]
    /\ buf = [d \in Instances |-> <<>>]
    /\ stdout = [d \in Instances |-> <<ReadyLine>>]
    /\ stderr = [d \in Instances |-> <<"server available", "model loaded",
                                        "connected">>]
    /\ exit_code = [d \in Instances |-> NoExit]
    /\ calls = [d \in Instances |-> <<>>]
    /\ failed = [d \in Instances |-> "none"]
    /\ wait = NoFrame
    /\ store = EmptyStore

\* The chunks of the request instance d has in hand.
SharedChunks(d) == DictGet(json_loads(request[d]).val, "chunks", JArr(<<>>))

\* readline, strip and the break tests of instance d at end-of-stream.
SharedEof(d) ==
    /\ pc[d] = "read"
    /\ pos[d] = Len(stdin[d])
    /\ pc' = [pc EXCEPT ![d] = "exited"]
    /\ exit_code' = [exit_code EXCEPT ![d] = 0]
    /\ UNCHANGED <<wait, stdin, pos, request, result, buf, stdout, stderr,
                   store, calls, failed>>

\* Instance d reads a line and enters process_request, then index_chunks.
SharedRead(d) ==
    /\ pc[d] = "read"
    /\ pos[d] < Len(stdin[d])
    /\ ~Breaks(Strip(stdin[d][pos[d] + 1]))
    /\ pos' = [pos EXCEPT ![d] = pos[d] + 1]
    /\ request' = [request EXCEPT ![d] = Strip(stdin[d][pos[d] + 1])]
    /\ calls' = [calls EXCEPT ![d] = <<>>]
    /\ pc' = [pc EXCEPT ![d] = "get_or_create_collection"]
    /\ UNCHANGED <<wait, stdin, result, buf, stdout, stderr, exit_code, store,
                   failed>>

\* Instance d's get_or_create_collection call reaches the store.
SharedGetOrCreate(d) ==
    /\ pc[d] = "get_or_create_collection"
    /\ store' = get_or_create_collection(store)
    /\ calls' = [calls EXCEPT ![d] = Append(calls[d], "get_or_create_collection")]
    /\ pc' = [pc EXCEPT ![d] = "encode"]
    /\ UNCHANGED <<wait, stdin, pos, request, result, buf, stdout, stderr,
                   exit_code, failed>>

\* Instance d runs its chunk loop and model.encode, on its own.
SharedEncode(d) ==
    /\ pc[d] = "encode"
    /\ LoopFault(SharedChunks(d)) = ""
    /\ calls' = [calls EXCEPT ![d] = Append(calls[d], "encode")]
    /\ pc' = [pc EXCEPT ![d] = "upsert"]
    /\ UNCHANGED <<wait, stdin, pos, request, result, buf, stdout, stderr,
                   exit_code, store, failed>>

\* Instance d's one upsert call reaches the store and is applied whole;
\* index_chunks and process_request return.
SharedUpsert(d) ==
    /\ pc[d] = "upsert"
    /\ LET chunks == SharedChunks(d)
           docs == Upsert(store.docs, Ids(chunks),
                          Embeddings(Documents(chunks)), Documents(chunks),
                          MetadataList(chunks))
       IN /\ store' = [store EXCEPT !.docs = docs]
          /\ \E uuid \in GenIds :
               result' = [result EXCEPT ![d] =
                   SuccessResult(MetaId(json_loads(request[d]).val, JStr(uuid)),
                                 IndexedCount(chunks, docs))]
    /\ calls' = [calls EXCEPT ![d] = Append(calls[d], "upsert")]
    /\ pc' = [pc EXCEPT ![d] = "emit"]
    /\ UNCHANGED <<wait, stdin, pos, request, buf, stdout, stderr, exit_code,
                   failed>>

\* print(json.dumps(result)); sys.stdout.flush() of instance d.
SharedEmit(d) ==
    /\ pc[d] = "emit"
    /\ stdout' = [stdout EXCEPT ![d] = stdout[d] \o buf[d] \o <<result[d]>>]
    /\ buf' = [buf EXCEPT ![d] = <<>>]
    /\ pc' = [pc EXCEPT ![d] = "read"]
    /\ UNCHANGED <<wait, stdin, pos, request, result, stderr, exit_code, store,
                   calls, failed>>

SharedNext ==
    \E d \in Instances :
        \/ SharedEof(d)
        \/ SharedRead(d)
        \/ SharedGetOrCreate(d)
        \/ SharedEncode(d)
        \/ SharedUpsert(d)
        \/ SharedEmit(d)

SpecShared == SharedInit /\ [][SharedNext]_vars

(* ----------------------------- C19 ------------------------------------- *)

\* The chunks of the k-th line sent to instance d.
SentChunks(d, k) == Range(ChunksOf(stdin[d][k]))

\* The ids of the batch instance d has in hand.
BatchIds(d) == { c.o["id"] : c \in SentChunks(d, pos[d]) }

C19_State ==
    /\ \A id \in DOMAIN store.docs :
         \E d \in Instances : \E k \in 1..pos[d] : \E c \in SentChunks(d, k) :
             c.o["id"] = id /\ store.docs[id] = StoredAs(c)
    /\ \A d \in Instances :
         /\ pc[d] = "emit" =>
              result[d] = SuccessResult(MetaIdOf(stdin[d][pos[d]]),
                                        NChunks(stdin[d][pos[d]]))
         /\ pc[d] \in {"emit", "read", "exited"} =>
              \A k \in 1..pos[d] : \A c \in SentChunks(d, k) :
                  c.o["id"] \in DOMAIN store.docs
         /\ pc[d] \in {"read", "exited"} =>
              /\ Len(stdout[d]) = pos[d] + 1
              /\ \A k \in 1..pos[d] :
                   stdout[d][k + 1] = SuccessResult(MetaIdOf(stdin[d][k]),
                                                    NChunks(stdin[d][k]))
         /\ pc[d] = "exited" => pos[d] = Len(stdin[d]) /\ exit_code[d] = 0
         /\ pc[d] = "get_or_create_collection" => ENABLED SharedGetOrCreate(d)
         /\ pc[d] = "upsert" => ENABLED SharedUpsert(d)

C19_Step ==
    /\ store.created => store'.created
    /\ \A d \in Instances :
         /\ (pc[d] = "upsert" /\ pc'[d] = "emit") =>
              /\ \A c \in SentChunks(d, pos[d]) :
                   store'.docs[c.o["id"]] = StoredAs(c)
              /\ \A id \in DOMAIN store.docs \ BatchIds(d) :
                   id \in DOMAIN store'.docs /\ store'.docs[id] = store.docs[id]
         /\ (pc[d] # "upsert" /\ pc'[d] # pc[d]) => store'.docs = store.docs

\* C19: with two instances serving requests against one store, each upsert
\* applied whole: every stored id holds the embedding, content and metadata
\* of one chunk of one request, the tuple of the upsert applied last for the
\* id; the collection, once made, is never made again and loses nothing to
\* the other instance's get-or-create; each instance answers each of its
\* requests with a Success carrying its own batch size; no instance's store
\* call waits on the other instance.
C19_LastWriteWinsAcrossInstances == []C19_State /\ [][C19_Step]_vars

\* Both instances have a request in flight with their upserts applied, d2's
\* (a1 with Y, a2) before d1's (a1 with X): a1 holds d1's tuple, a2 d2's.
C19_Witness ==
    /\ pc["d1"] = "emit" /\ pc["d2"] = "emit"
    /\ SentChunks("d1", pos["d1"]) = {ChunkA1X}
    /\ SentChunks("d2", pos["d2"]) = {ChunkA1Y, ChunkA2X}
    /\ store.docs[JStr("a1")] = StoredAs(ChunkA1X)
    /\ store.docs[JStr("a2")] = StoredAs(ChunkA2X)
    /\ result["d1"].indexed_count = 1 /\ result["d2"].indexed_count = 2

(* ----------------------------- C20 ------------------------------------- *)

\* One pass of the loop of wait_for_server, or its end.
WaitStep == WaitProbeOk \/ WaitProbeFail \/ WaitTimeout

\* The process is scheduled: wait_for_server keeps running while it can.
FairSpec == Spec /\ WF_vars(WaitStep)

\* What wait_for_server returned, read off its own diagnostic.
ReturnedTrue == stderr # <<>> /\ stderr[1] = "server available"
ReturnedFalse == stderr # <<>> /\ stderr[1] = "server not available"

C20_State ==
    /\ pc = "wait" =>
         /\ stderr = <<>> /\ exit_code = NoExit
         /\ wait.elapsed = 0 \/ wait.elapsed <= wait.timeout * TicksPerSecond
    /\ pc # "wait" =>
         /\ ReturnedTrue \/ ReturnedFalse
         /\ Cardinality({ i \in 1..Len(stderr) :
              stderr[i] \in {"server available", "server not available"} }) = 1
         /\ "traceback" \notin Range(stderr)

C20_Step ==
    pc = "wait" =>
        \/ /\ ReturnedTrue'
           /\ wait.elapsed < wait.timeout * TicksPerSecond
           /\ pc' = "load_model" /\ exit_code' = NoExit
        \/ /\ ReturnedFalse'
           /\ wait.elapsed >= wait.timeout * TicksPerSecond
           /\ pc' = "exited"
        \/ /\ pc' = "wait" /\ stderr' = <<>> /\ exit_code' = NoExit
           /\ wait.elapsed < wait.timeout * TicksPerSecond
           /\ wait'.timeout = wait.timeout
           /\ wait'.elapsed > wait.elapsed

\* C20: wait_for_server never raises and always returns.  It returns True
\* on the first successful probe, issued before the deadline, and probes no
\* more; it returns False only when the timeout has elapsed without a
\* successful probe; a failed probe is swallowed and followed by a sleep,
\* so the clock has moved on by at least 0.2 s before the next probe.
C20_WaitForServerReturns ==
    /\ []C20_State
    /\ [][C20_Step]_vars
    /\ (pc = "wait") ~> (ReturnedTrue \/ ReturnedFalse)

\* The timeout elapsed with every probe failing: wait_for_server returned
\* False and main gave up.
C20_Witness ==
    /\ ReturnedFalse /\ pc = "exited" /\ exit_code = 1
    /\ stderr = <<"server not available", "unable to join">>
    /\ stdout = <<>>

(* ----------------------------- C21 ------------------------------------- *)

\* stdin holds one valid request, cut by end-of-stream before its newline.
OneUnterminatedRequest ==
    /\ Len(stdin) = 1
    /\ stdin[1] \in UnterminatedLines
    /\ WellFormed(stdin[1])

C21_State ==
    OneUnterminatedRequest =>
        /\ (pc = "exited" /\ stdout # <<>>) =>
             /\ exit_code = 0 /\ pos = 1
             /\ Len(stdout) = 2
             /\ Response(1).status \in {"success", "error"}
             /\ failed = "none" =>
                  /\ Response(1).status = "success"
                  /\ Response(1).indexed_count = NChunks(stdin[1])
                  /\ HoldsBatch(store.docs, stdin[1])
        /\ (pc \in {"process", "emit"}) => request = <<stdin[1][1]>>

C21_Step ==
    (OneUnterminatedRequest /\ pc = "read" /\ pos = 0) =>
        /\ pc' = "process"
        /\ pos' = 1
        /\ request' = Strip(stdin[1])

\* C21: when stdin holds exactly one valid request that lacks its newline,
\* followed by end-of-stream, the daemon reads it as a request, processes
\* it, emits its response (a Success when the collaborators' calls succeed)
\* and then exits with code 0.
C21_UnterminatedLastLineServed == []C21_State /\ [][C21_Step]_vars

\* The unterminated request was indexed and answered, and the daemon ended
\* cleanly at the end of the stream.
C21_Witness ==
    /\ OneUnterminatedRequest
    /\ pc = "exited" /\ exit_code = 0 /\ pos = 1
    /\ Len(stdout) = 2 /\ Response(1).status = "success"
    /\ Response(1).indexed_count = 1
    /\ store.docs[JStr("a1")] = StoredAs(ChunkA1X)

(* ----------------------------- C22 ------------------------------------- *)

\* How many times the collaborator call was made for the request in hand.
CallCount(call) == Cardinality({ i \in 1..Len(calls) : calls[i] = call })

\* The request just served ended in a success.
JustSucceeded ==
    /\ pos >= 1 /\ pc \in {"emit", "read"}
    /\ result.status = "success"

\* C22: for a successful request model.encode is called once, with the
\* content strings of all chunks in request order, and upsert is called
\* once, with ids, vectors, documents and metadatas of one length, aligned:
\* the i-th chunk's id is stored with the vector of the i-th content, its
\* own content and its own metadata, an empty mapping when it has none.
C22_BatchAlignedByIndex ==
    JustSucceeded =>
        LET chunks == JsonOf(stdin[pos]).o["chunks"]
            n == Len(chunks.a)
            ids == Ids(chunks)
            documents == Documents(chunks)
            metadatas == MetadataList(chunks)
            embeddings == Embeddings(documents)
        IN /\ CallCount("encode") = 1 /\ CallCount("upsert") = 1
           /\ calls = <<"get_or_create_collection", "encode", "upsert">>
           /\ Len(ids) = n /\ Len(documents) = n
           /\ Len(metadatas) = n /\ Len(embeddings) = n
           /\ \A i \in 1..n :
                /\ ids[i] = chunks.a[i].o["id"]
                /\ documents[i] = chunks.a[i].o["content"]
                /\ embeddings[i] = <<"vec", chunks.a[i].o["content"]>>
                /\ metadatas[i] =
                     IF "metadata" \in DOMAIN chunks.a[i].o
                     THEN chunks.a[i].o["metadata"] ELSE EmptyObj
                /\ store.docs[ids[i]] =
                     [embedding |-> <<"vec", chunks.a[i].o["content"]>>,
                      document |-> chunks.a[i].o["content"],
                      metadata |-> metadatas[i]]

\* A batch of a1 (content Y, metadata js) and a2 (content X, metadata py)
\* was stored after an earlier request, each id with its own vector,
\* content and metadata.
C22_Witness ==
    /\ JustSucceeded /\ pc = "read" /\ pos = 2
    /\ Response(1).status = "success"
    /\ ChunksOf(stdin[1]) = <<ChunkA1X>>
    /\ ChunksOf(stdin[2]) = <<ChunkA1Y, ChunkA2X>>
    /\ store.docs[JStr("a1")] =
         [embedding |-> <<"vec", JStr("Y")>>, document |-> JStr("Y"),
          metadata |-> JObj("lang" :> JStr("js"))]
    /\ store.docs[JStr("a2")] =
         [embedding |-> <<"vec", JStr("X")>>, document |-> JStr("X"),
          metadata |-> JObj("lang" :> JStr("py"))]

(* ----------------------------- a lock-step parent ---------------------- *)

\* The request lines IndexerDaemon.send_request writes: an object with a
\* meta.id and the caller's chunks, newline-terminated.
LockStepLines ==
    { <<JsonTok(WithMeta(Meta(JStr("r1")), chunks)), Nl>> :
        chunks \in { JArr(<<ChunkA1X>>), JArr(<<ChunkA1Y, ChunkA2X>>),
                     JArr(<<>>), JArr(<<ChunkA2X, ChunkNoId>>) } }

\* The parent is inside wait_for_ready or inside send_request's readline:
\* it has not yet read READY and one response per line it wrote.
ParentBlocked == Len(stdout) < Len(stdin) + 1

\* The daemon is inside sys.stdin.readline() with nothing to read: the
\* stream stays open while the parent lives.
DaemonBlocked == pc = "read" /\ pos = Len(stdin)

\* The daemon starts; the parent has written nothing yet.
LockStepInit ==
    /\ pc = "wait"
    /\ wait \in { [timeout |-> t, elapsed |-> 0] : t \in MinTimeout..MaxTimeout }
    /\ stdin = <<>>
    /\ pos = 0
    /\ request = <<>>
    /\ result = NoResult
    /\ buf = <<>>
    /\ stdout = <<>>
    /\ stderr = <<>>
    /\ exit_code = NoExit
    /\ store = EmptyStore
    /\ calls = <<>>
    /\ failed = "none"

\* send_request: the daemon is running and the parent has read all it was
\* owed; it writes one request line, flushes, and blocks on the response.
ParentSend ==
    /\ pc # "exited"
    /\ ~ParentBlocked
    /\ Len(stdin) < MaxLines
    /\ \E line \in LockStepLines : stdin' = Append(stdin, line)
    /\ UNCHANGED <<pc, wait, pos, request, result, buf, stdout, stderr,
                   exit_code, store, calls, failed>>

\* stop: the parent writes `exit` and waits for the process to end.
ParentStop ==
    /\ pc # "exited"
    /\ ~ParentBlocked
    /\ stdin' = Append(stdin, <<ExitTok, Nl>>)
    /\ UNCHANGED <<pc, wait, pos, request, result, buf, stdout, stderr,
                   exit_code, store, calls, failed>>

\* The steps of the daemon; readline blocks when no line is waiting.
DaemonStep ==
    \/ WaitProbeOk
    \/ WaitProbeFail
    \/ WaitTimeout
    \/ LoadModelOk
    \/ LoadModelFail
    \/ ConnectOk
    \/ ConnectFail
    \/ EmitReady
    \/ ReadBreak
    \/ ReadRequest
    \/ Dispatch
    \/ EmitResult

LockStepNext == DaemonStep \/ ParentSend \/ ParentStop

\* The daemon is scheduled and every collaborator call returns or raises;
\* nothing is asked of the parent.
LockStepSpec == LockStepInit /\ [][LockStepNext]_vars /\ WF_vars(DaemonStep)

(* ----------------------------- C23 ------------------------------------- *)

C23_NoDeadlock ==
    /\ ~(DaemonBlocked /\ ParentBlocked)
    /\ pc = "read" => buf = <<>>

\* C23: with a parent that writes one request line and then blocks until it
\* has read one response line, parent and daemon are never both blocked on
\* each other; READY is delivered unless startup fails, and the response to
\* every request the parent wrote is delivered, each line being flushed
\* before the daemon reads again.
C23_LockStepLiveness ==
    /\ []C23_NoDeadlock
    /\ (pc = "wait") ~> (stdout = <<ReadyLine>> \/ exit_code = 1)
    /\ \A k \in 1..MaxLines :
         (Len(stdin) >= k /\ ~BlankOrExit(stdin[k]))
             ~> (Len(stdout) >= k + 1 /\ Answers(stdout[k + 1], stdin[k]))

\* The parent has got READY and the responses to both requests it wrote,
\* one at a time, and may write again.
C23_Witness ==
    /\ Len(stdin) = 2 /\ pos = 2 /\ DaemonBlocked /\ ~ParentBlocked
    /\ stdout[1] = ReadyLine
    /\ Response(1).status = "success" /\ Response(2).status = "error"

(* ----------------------------- C24 ------------------------------------- *)

\* The request in hand failed in the chunk loop or in model.encode.
FailedBeforeStore ==
    /\ pc = "emit" /\ result.status = "error"
    /\ \/ failed = "encode"
       \/ /\ IsJsonLine(stdin[pos])
          /\ JsonOf(stdin[pos]).t = "obj"
          /\ "chunks" \in DOMAIN JsonOf(stdin[pos]).o
          /\ LoopFault(JsonOf(stdin[pos]).o["chunks"]) # ""
          /\ result.message = LoopFault(JsonOf(stdin[pos]).o["chunks"])

\* C24: the pipeline extracts the contents, calls the embedding model, and
\* only then obtains the collection and upserts: no get-or-create precedes
\* the embedding call, and a request whose chunk extraction or embedding
\* fails makes no call to the store.
C24_CollectionObtainedAfterEmbedding ==
    /\ \A i, j \in 1..Len(calls) :
         (calls[i] = "get_or_create_collection" /\ calls[j] = "encode") => j < i
    /\ FailedBeforeStore =>
         /\ "get_or_create_collection" \notin Range(calls)
         /\ "upsert" \notin Range(calls)

(* ----------------------------- C25 ------------------------------------- *)

\* wait_for_server has run to its end: its verdict is on stderr.
PollHasRun ==
    \E i \in 1..Len(stderr) :
        stderr[i] \in {"server available", "server not available"}

\* C25: startup loads the model and constructs the store client first, then
\* polls for the server, then is ready: the poll starts only with the model
\* loaded and the client constructed, and a model-load failure ends the
\* process without the poll having been started.
C25_BootingBeforeWaiting ==
    /\ (pc = "wait" \/ PollHasRun) =>
         /\ stderr # <<>> /\ stderr[1] = "model loaded"
         /\ Len(stderr) >= 2 /\ stderr[2] = "connected"
    /\ "model load failed" \in Range(stderr) => ~PollHasRun

(* ----------------------------- C26 ------------------------------------- *)

C26_State ==
    (pc = "emit" /\ result.status = "error" /\ failed # "upsert") =>
        /\ "upsert" \notin Range(calls)
        /\ pos = 1 => store.docs = EmptyStore.docs

C26_Step ==
    (pc = "process" /\ result'.status = "error" /\ failed' # "upsert") =>
        /\ store'.docs = store.docs
        /\ "upsert" \notin Range(calls')

\* C26: a request answered with an Error that arises before the upsert call
\* (parse failure, missing or empty chunks, a chunk without id or content,
\* an embedding failure) has issued no upsert and leaves every stored entry
\* as it was: a batch with one malformed chunk stores none of its chunks.
C26_AllOrNothing == []C26_State /\ [][C26_Step]_vars

\* After a request stored a1, a batch of a good a2 and a chunk without id
\* was refused: a2 is not in the store and a1 is as it was.
C26_Witness ==
    /\ pc = "emit" /\ pos = 2
    /\ Response(1).status = "success"
    /\ ChunksOf(stdin[1]) = <<ChunkA1X>>
    /\ stdin[2] = <<JsonTok(WithMeta(Meta(JStr("r1")),
                                      JArr(<<ChunkA2X, ChunkNoId>>))), Nl>>
    /\ result.status = "error" /\ result.message = "'id'"
    /\ DOMAIN store.docs = {JStr("a1")}
    /\ store.docs[JStr("a1")] = StoredAs(ChunkA1X)

(* ----------------------------- C27 ------------------------------------- *)

\* The line is a JSON object whose meta is present and is not an object.
NonObjectMeta(line) ==
    /\ IsJsonLine(line)
    /\ JsonOf(line).t = "obj"
    /\ "meta" \in DOMAIN JsonOf(line).o
    /\ JsonOf(line).o["meta"].t # "obj"

\* Values of meta that are not objects: null, a string, a number, an array.
NonObjects == { JNull, JStr("m"), JNum(5), JArr(<<JStr("r1")>>) }

\* C27: a request whose meta is present but is not a JSON object is answered
\* with an Error under a generated id, and none of its chunks is embedded
\* or stored, even when its chunk list is well-formed and non-empty.
C27_NonObjectMetaRefused ==
    /\ \A k \in 1..pos : NonObjectMeta(stdin[k]) =>
         /\ (k = pos /\ pc = "emit") =>
              /\ result.status = "error" /\ result.id \in Generated
              /\ calls = <<>>
         /\ (k < pos \/ pc \in {"read", "exited"}) =>
              /\ Answered(k)
              /\ Response(k).status = "error"
              /\ Response(k).id \in Generated
         /\ (\A j \in 1..pos : NonObjectMeta(stdin[j])) => store = EmptyStore
    /\ pc = "process" =>
       \A m \in NonObjects, g \in GenIds, f \in Failures :
         LET req == <<JsonTok(WithMeta(m, JArr(<<ChunkA1X, ChunkA2X>>)))>>
             r == process_request(store, req, g, f)
         IN /\ ~r.escaped
            /\ r.result.status = "error" /\ r.result.id = JStr(g)
            /\ r.store = store /\ r.calls = <<>> /\ r.failed = "none"

\* A request with a null meta and a good chunk was refused under a
\* generated id, after an earlier request had stored a1: nothing was
\* embedded for it and the store is as the first request left it.
C27_Witness ==
    /\ pc = "emit" /\ pos = 2
    /\ Response(1).status = "success"
    /\ NonObjectMeta(stdin[2])
    /\ "chunks" \in DOMAIN JsonOf(stdin[2]).o
    /\ JsonOf(stdin[2]).o["chunks"] = JArr(<<ChunkA1X>>)
    /\ result.status = "error" /\ result.id = JStr("uuid-2")
    /\ calls = <<>>
    /\ HoldsBatch(store.docs, stdin[1])

(* ----------------------------- C28 ------------------------------------- *)

C28_State ==
    /\ (pc = "wait" /\ wait.timeout <= 0) =>
         /\ ~ENABLED WaitProbeOk
         /\ ~ENABLED WaitProbeFail
         /\ ENABLED WaitTimeout
    /\ (pc = "wait" /\ wait.timeout > 0 /\ wait.elapsed = 0) =>
         ~ENABLED WaitTimeout
    /\ (ReturnedFalse /\ pc = "exited") =>
         /\ exit_code = 1 /\ stdout = <<>>
         /\ wait.timeout <= 0 => wait.elapsed = 0
         /\ wait.timeout > 0 => wait.elapsed > 0

C28_Step ==
    /\ (pc = "wait" /\ wait.timeout <= 0) =>
         /\ ReturnedFalse' /\ pc' = "exited" /\ exit_code' = 1
         /\ stdout' = <<>> /\ wait' = wait
    /\ (pc = "wait" /\ wait.timeout > 0 /\ ReturnedFalse') =>
         wait.elapsed >= wait.timeout * TicksPerSecond

\* C28: with timeout <= 0 wait_for_server returns False without a single
\* probe, whether or not the store is up, and the daemon exits with status 1
\* and an empty stdout; with timeout > 0 False is returned only after at
\* least one probe has failed and been slept on.
C28_NoProbeWithoutTimeout == []C28_State /\ [][C28_Step]_vars

\* A daemon started with a negative timeout gave up at once: no time had
\* passed, nothing is on stdout, the status is 1.
C28_Witness ==
    /\ pc = "exited" /\ exit_code = 1
    /\ wait.timeout < 0 /\ wait.elapsed = 0
    /\ ReturnedFalse /\ stdout = <<>>

====
